---- MODULE Spec2Model ----
(***************************************************************************)
(* Model of newsletter.py: the pipeline of main() (load config, generate  *)
(* with the continuation loop, format as HTML, send), and the pure         *)
(* functions it is built from.                                             *)
(*                                                                         *)
(* A Python str is a sequence of one-character strings.  The fixed pieces  *)
(* of markup that format_as_html emits (an opening tag with its style      *)
(* attribute, a closing tag) are single elements of such a sequence: none  *)
(* of the patterns applied after they are inserted can match inside them.  *)
(***************************************************************************)
EXTENDS Integers, Sequences, FiniteSets, TLC

VARIABLES argv, store, environ, clock,
          pc, exit_status, diag,
          config, messages, all_content, total_searches,
          text, html,
          genCalls, outbox, received, genReturned, sendReturned,
          raised, stages, log

vars == <<argv, store, environ, clock, pc, exit_status, diag, config,
          messages, all_content, total_searches, text, html,
          genCalls, outbox, received, genReturned, sendReturned,
          raised, stages, log>>

(***************************************************************************)
(* Bounds of the model.                                                    *)
(***************************************************************************)
MaxCalls == 3         \* generation-API calls explored in one run
MaxLineLen == 4       \* length of the texts given to the formatter alone
MaxTicks == 6         \* hours the clock advances between formatter calls
MaxFormatCalls == 2   \* calls of format_as_html compared with each other
StartHour == 44       \* clock at the start: day 1, 20:00 UTC

(***************************************************************************)
(* str helpers                                                             *)
(***************************************************************************)
Min(S) == CHOOSE x \in S : \A y \in S : x <= y

Whitespace == {" ", "\n", "\t"}

Digits == {"1", "2"}

StartsWith(s, p) == Len(s) >= Len(p) /\ SubSeq(s, 1, Len(p)) = p

Tail_(s, n) == SubSeq(s, n + 1, Len(s))

RECURSIVE LStrip(_)
LStrip(s) == IF s # <<>> /\ Head(s) \in Whitespace THEN LStrip(Tail(s)) ELSE s

RECURSIVE RStrip(_)
RStrip(s) ==
    IF s # <<>> /\ s[Len(s)] \in Whitespace
    THEN RStrip(SubSeq(s, 1, Len(s) - 1)) ELSE s

Strip(s) == RStrip(LStrip(s))

\* text.split("\n"): always at least one piece
RECURSIVE SplitFrom(_, _, _)
SplitFrom(s, i, cur) ==
    IF i > Len(s) THEN <<cur>>
    ELSE IF s[i] = "\n" THEN <<cur>> \o SplitFrom(s, i + 1, <<>>)
    ELSE SplitFrom(s, i + 1, Append(cur, s[i]))

SplitLines(s) == SplitFrom(s, 1, <<>>)

\* "\n".join(parts)
RECURSIVE JoinLines(_)
JoinLines(parts) ==
    IF parts = <<>> THEN <<>>
    ELSE IF Len(parts) = 1 THEN parts[1]
    ELSE parts[1] \o <<"\n">> \o JoinLines(Tail(parts))

\* An element: the opening tag, the content, the closing tag.  A tag is one
\* element of the sequence; the style attribute, fixed per tag, is left out of
\* its spelling.
OpenTag(tag) ==
    CASE tag = "h1" -> "<h1>" [] tag = "h2" -> "<h2>" [] tag = "h3" -> "<h3>"
      [] tag = "li" -> "<li>" [] tag = "p" -> "<p>"
      [] tag = "strong" -> "<strong>" [] tag = "em" -> "<em>"

CloseTag(tag) ==
    CASE tag = "h1" -> "</h1>" [] tag = "h2" -> "</h2>" [] tag = "h3" -> "</h3>"
      [] tag = "li" -> "</li>" [] tag = "p" -> "</p>"
      [] tag = "strong" -> "</strong>" [] tag = "em" -> "</em>"

Element(tag, content) == <<OpenTag(tag)>> \o content \o <<CloseTag(tag)>>

(***************************************************************************)
(* The three inline rewrites of format_as_html, each a re.sub: scan left   *)
(* to right, at each position take the match the pattern gives there (the  *)
(* lazy group is the shortest that lets the rest match), replace it and    *)
(* go on after it; a position without a match keeps its character.         *)
(***************************************************************************)
\* \*\*(.+?)\*\* at position i: the position of the closing pair, or 0
BoldClose(s, i) ==
    IF i + 1 <= Len(s) /\ s[i] = "*" /\ s[i + 1] = "*"
    THEN LET C == {j \in (i + 3)..(Len(s) - 1) : s[j] = "*" /\ s[j + 1] = "*"}
         IN  IF C = {} THEN 0 ELSE Min(C)
    ELSE 0

RECURSIVE SubBoldFrom(_, _)
SubBoldFrom(s, i) ==
    IF i > Len(s) THEN <<>>
    ELSE LET j == BoldClose(s, i)
         IN  IF j > 0
             THEN Element("strong", SubSeq(s, i + 2, j - 1))
                    \o SubBoldFrom(s, j + 2)
             ELSE <<s[i]>> \o SubBoldFrom(s, i + 1)

SubBold(s) == SubBoldFrom(s, 1)

\* (?<!\*)\*(?!\*)(.+?)(?<!\*)\*(?!\*) at position i: the closing star, or 0
ItalicClose(s, i) ==
    IF /\ s[i] = "*"
       /\ (i = 1 \/ s[i - 1] # "*")
       /\ i + 1 <= Len(s)
       /\ s[i + 1] # "*"
    THEN LET C == {j \in (i + 2)..Len(s) :
                      /\ s[j] = "*"
                      /\ s[j - 1] # "*"
                      /\ (j = Len(s) \/ s[j + 1] # "*")}
         IN  IF C = {} THEN 0 ELSE Min(C)
    ELSE 0

RECURSIVE SubItalicFrom(_, _)
SubItalicFrom(s, i) ==
    IF i > Len(s) THEN <<>>
    ELSE LET j == ItalicClose(s, i)
         IN  IF j > 0
             THEN Element("em", SubSeq(s, i + 1, j - 1))
                    \o SubItalicFrom(s, j + 1)
             ELSE <<s[i]>> \o SubItalicFrom(s, i + 1)

SubItalic(s) == SubItalicFrom(s, 1)

\* \[(.+?)\]\((.+?)\) at position i: <<position of "]", position of ")">>
LinkClose(s, i) ==
    IF s[i] = "["
    THEN LET C == {j \in (i + 2)..(Len(s) - 1) :
                      /\ s[j] = "]"
                      /\ s[j + 1] = "("
                      /\ \E k \in (j + 3)..Len(s) : s[k] = ")"}
         IN  IF C = {} THEN <<0, 0>>
             ELSE LET j == Min(C)
                  IN  <<j, Min({k \in (j + 3)..Len(s) : s[k] = ")"})>>
    ELSE <<0, 0>>

RECURSIVE SubLinkFrom(_, _)
SubLinkFrom(s, i) ==
    IF i > Len(s) THEN <<>>
    ELSE LET m == LinkClose(s, i)
         IN  IF m[1] > 0
             THEN <<"<a href=\"">> \o SubSeq(s, m[1] + 2, m[2] - 1) \o <<"\">">>
                    \o SubSeq(s, i + 1, m[1] - 1) \o <<"</a>">>
                    \o SubLinkFrom(s, m[2] + 1)
             ELSE <<s[i]>> \o SubLinkFrom(s, i + 1)

SubLink(s) == SubLinkFrom(s, 1)

InlineMarkdown(s) == SubLink(SubItalic(SubBold(s)))

\* ^\d+\.\s : the length of the match at the start of s, or 0
RECURSIVE DigitRun(_, _)
DigitRun(s, i) ==
    IF i <= Len(s) /\ s[i] \in Digits THEN DigitRun(s, i + 1) ELSE i - 1

OrdinalPrefix(s) ==
    LET d == DigitRun(s, 1)
    IN  IF d >= 1 /\ d + 2 <= Len(s) /\ s[d + 1] = "." /\ s[d + 2] \in Whitespace
        THEN d + 2 ELSE 0

\* the block dispatch on the rewritten line s (lines 147-171)
BlockDispatch(s) ==
    IF StartsWith(s, <<"#", "#", "#", " ">>) THEN Element("h3", Tail_(s, 4))
    ELSE IF StartsWith(s, <<"#", "#", " ">>) THEN Element("h2", Tail_(s, 3))
    ELSE IF StartsWith(s, <<"#", " ">>) THEN Element("h1", Tail_(s, 2))
    ELSE IF StartsWith(s, <<"-", " ">>) \/ StartsWith(s, <<"*", " ">>)
         THEN Element("li", Tail_(s, 2))
    ELSE IF OrdinalPrefix(s) > 0 THEN Element("li", Tail_(s, OrdinalPrefix(s)))
    ELSE Element("p", s)

\* one iteration of the loop over lines (lines 132-171)
FormatLine(line) ==
    LET s == Strip(line)
    IN  IF s = <<>> THEN <<>> ELSE BlockDispatch(InlineMarkdown(s))

HtmlLines(t) == LET lines == SplitLines(t)
                IN  [i \in 1..Len(lines) |-> FormatLine(lines[i])]


(***************************************************************************)
(* Configuration records.  A config is the dict json.load returns: a       *)
(* function from the keys present to their values.                         *)
(***************************************************************************)
NoConfig == [k \in {} |-> ""]

Without(c, key) == [k \in (DOMAIN c) \ {key} |-> c[k]]

FullConfig ==
    [name |-> "Biosecurity Weekly",
     model |-> "model-id",
     prompt |-> <<" ", "p", " ">>,
     schedule |-> [timezone |-> "Europe/Berlin"],
     subject_template |-> <<"Weekly Update - ", "{date}">>,
     sender_email |-> "sender@example.com",
     recipient_email |-> "reader@example.com"]

\* config.get("schedule", {}).get("timezone", "US/Eastern")
TzName(c) ==
    IF "schedule" \in DOMAIN c /\ "timezone" \in DOMAIN c["schedule"]
    THEN c["schedule"]["timezone"]
    ELSE "US/Eastern"

TIMEZONE_MAP ==
    {"US/Eastern", "US/Central", "US/Mountain", "US/Pacific",
     "Europe/London", "Europe/Berlin", "Asia/Tokyo", "UTC"}

\* hours east of UTC of each zone ZoneInfo resolves (standard time)
UtcOffset(tz_key) ==
    CASE tz_key = "US/Eastern" -> -5
      [] tz_key = "US/Central" -> -6
      [] tz_key = "US/Mountain" -> -7
      [] tz_key = "US/Pacific" -> -8
      [] tz_key = "Europe/London" -> 0
      [] tz_key = "Europe/Berlin" -> 1
      [] tz_key = "Asia/Tokyo" -> 9
      [] OTHER -> 0

\* datetime.now(tz) when the system clock reads clk hours: the local time,
\* in hours since the start of day 0
get_local_now(tz_name, clk) ==
    LET tz_key == IF tz_name \in TIMEZONE_MAP THEN tz_name ELSE "UTC"
    IN  clk + UtcOffset(tz_key)

\* now.strftime(fmt) for the two date-only formats the program uses
\* faulty variant of Strftime: a format that also prints the hour
StrftimeWithHour(fmt, now) == <<fmt, ToString(now \div 24), ToString(now % 24)>>

Strftime(fmt, now) == <<fmt, ToString(now \div 24)>>

(***************************************************************************)
(* format_as_html: the fixed template with its three holes filled.         *)
(***************************************************************************)
format_as_html(t, c, clk) ==
    [name |-> c["name"],
     date_display |-> Strftime("%B %d, %Y", get_local_now(TzName(c), clk)),
     body |-> JoinLines(HtmlLines(t))]

NoDoc == [name |-> "", date_display |-> <<>>, body |-> <<>>]


(***************************************************************************)
(* The generation API as generate_newsletter sees it.                      *)
(***************************************************************************)
\* content blocks: a text block has the attribute text, the blocks of search
\* activity have not
TextBlock(t) == [type |-> "text", text |-> t]

SearchBlock == [type |-> "server_tool_use"]

ResultBlock == [type |-> "web_search_tool_result"]

TextA == <<"#", " ", "a">>

TextB == <<"[", "b", "]", "(", "u", ")">>

Contents ==
    {<<SearchBlock>>,
     <<TextBlock(TextA)>>,
     <<SearchBlock, ResultBlock, TextBlock(TextB)>>,
     <<TextBlock(TextB), SearchBlock, TextBlock(TextA)>>}

StopReasons == {"pause_turn", "end_turn", "max_tokens"}

ApiErrors == {"AuthenticationError", "APIConnectionError"}

SearchCounts == {0, 2}

\* the shapes response.usage and its server_tool_use can take
UsageShapes ==
    {"no_attribute", "none", "empty_dict", "dict", "dict_other_key",
     "attr", "attr_other"}

MakeUsage(shape, n) ==
    CASE shape = "no_attribute" -> [input_tokens |-> 1]
      [] shape = "none" ->
            [server_tool_use |-> [style |-> "none", fields |-> {}]]
      [] shape = "empty_dict" ->
            [server_tool_use |-> [style |-> "dict", fields |-> {}]]
      [] shape = "dict" ->
            [server_tool_use |->
                [style |-> "dict", fields |-> {<<"web_search_requests", n>>}]]
      [] shape = "dict_other_key" ->
            [server_tool_use |->
                [style |-> "dict", fields |-> {<<"web_fetch_requests", n>>}]]
      [] shape = "attr" ->
            [server_tool_use |->
                [style |-> "attr", fields |-> {<<"web_search_requests", n>>}]]
      [] shape = "attr_other" ->
            [server_tool_use |->
                [style |-> "attr", fields |-> {<<"web_fetch_requests", n>>}]]

\* the counter the API reported in a usage of this shape
ReportedSearches(shape, n) == IF shape \in {"dict", "attr"} THEN n ELSE 0

\* d.get(key, default) and getattr(o, key, default) on the fields of a value
Lookup(fields, key, default) ==
    IF \E f \in fields : f[1] = key
    THEN (CHOOSE f \in fields : f[1] = key)[2]
    ELSE default

\* lines 102-109: the number added to total_searches for a response
\* faulty variant of SearchCount: reads attribute-style records only
SearchCountAttrOnly(usage) ==
    LET stu == IF "server_tool_use" \in DOMAIN usage
               THEN usage["server_tool_use"]
               ELSE [style |-> "none", fields |-> {}]
    IN  IF stu["style"] = "attr"
        THEN Lookup(stu["fields"], "web_search_requests", 0)
        ELSE 0

SearchCount(usage) ==
    LET stu == IF "server_tool_use" \in DOMAIN usage
               THEN usage["server_tool_use"]
               ELSE [style |-> "none", fields |-> {}]
        truthy == \/ stu["style"] = "attr"
                  \/ stu["style"] = "dict" /\ stu["fields"] # {}
    IN  IF truthy
        THEN IF stu["style"] = "dict"
             THEN Lookup(stu["fields"], "web_search_requests", 0)
             ELSE Lookup(stu["fields"], "web_search_requests", 0)
        ELSE 0

\* line 112
\* faulty variant of IsPause: continues on every reason but end_turn
IsPauseUnlessEndTurn(stop_reason) == stop_reason # "end_turn"

IsPause(stop_reason) == stop_reason = "pause_turn"

\* lines 113-114
\* faulty variant of ContinueTranscript: the assistant turn is not appended
ContinueTranscriptUserOnly(msgs, content) ==
    Append(msgs, [role |-> "user", content |-> <<"Please continue.">>])

ContinueTranscript(msgs, content) ==
    Append(Append(msgs, [role |-> "assistant", content |-> content]),
           [role |-> "user", content |-> <<"Please continue.">>])

\* line 99
\* faulty variant of Extend: assignment in place of extend
ExtendReplacing(acc, content) == content

Extend(acc, content) == acc \o content

\* lines 120-121
RECURSIVE TextParts(_)
TextParts(blocks) ==
    IF blocks = <<>> THEN <<>>
    ELSE IF "text" \in DOMAIN Head(blocks)
         THEN <<Head(blocks)["text"]>> \o TextParts(Tail(blocks))
         ELSE TextParts(Tail(blocks))

NewsletterText(blocks) == JoinLines(TextParts(blocks))

\* lines 70-84: the composed prompt, as the first message of the transcript
ComposedPrompt(c, clk) ==
    [today |-> Strftime("%B %d, %Y", get_local_now(TzName(c), clk)),
     body |-> Strip(c["prompt"])]


(***************************************************************************)
(* The environment of a run: the command line, the config store, the       *)
(* process environment.                                                    *)
(***************************************************************************)
Argvs == {<<"newsletter.py">>, <<"newsletter.py", "biosecurity">>,
          <<"newsletter.py", "unknown">>}

Configs ==
    {FullConfig,
     Without(FullConfig, "name"),
     Without(FullConfig, "prompt"),
     Without(FullConfig, "subject_template"),
     [FullConfig EXCEPT !["subject_template"] = <<"{name}", ": ", "{date}">>]}

\* the newsletters directory: at most the file biosecurity.json
Stores == {NoConfig} \cup {[id \in {"biosecurity"} |-> c] : c \in Configs}

Environs == {{}, {"RESEND_API_KEY"}}

DeliveryOutcomes == {"ok", "error"}

NoException == [type |-> "", arg |-> ""]

Exception(type, arg) == [type |-> type, arg |-> arg]

(***************************************************************************)
(* How a run ends.                                                         *)
(***************************************************************************)
\* the process exit status for each report: sys.exit(1) after every
\* diagnostic, a traceback for an uncaught exception, 0 at the end of main
\* faulty variant of ExitStatus: the send-error handler lacks sys.exit(1)
ExitStatusSendErrorZero(d) == IF d \in {"done", "send_error"} THEN 0 ELSE 1

ExitStatus(d) == IF d = "done" THEN 0 ELSE 1

\* where control goes after a report: every handler ends the process
\* faulty variant of AfterReport: a failed delivery is tried again
AfterReportRetrySend(d) == IF d = "send_error" THEN "send" ELSE "exit"

AfterReport(d) == "exit"

Report(d) ==
    /\ diag' = d
    /\ pc' = AfterReport(d)
    /\ exit_status' = IF AfterReport(d) = "exit" THEN ExitStatus(d) ELSE exit_status

\* the except clauses of main around generate_newsletter (lines 242-248)
GenHandler(exc) == IF exc.type = "AuthenticationError" THEN "auth" ELSE "gen_error"

\* the except clauses of main around send_email (lines 257-263)
SendHandler(exc) == IF exc.type = "KeyError" THEN "no_resend_key" ELSE "send_error"

(***************************************************************************)
(* load_config                                                             *)
(***************************************************************************)
\* faulty variant of LoadOutcome: a default config in place of the exit
LoadOutcomeDefaulting(id) ==
    IF id \in DOMAIN store
    THEN [found |-> TRUE, cfg |-> store[id]]
    ELSE [found |-> TRUE, cfg |-> FullConfig]

LoadOutcome(id) ==
    IF id \in DOMAIN store
    THEN [found |-> TRUE, cfg |-> store[id]]
    ELSE [found |-> FALSE, cfg |-> NoConfig]

(***************************************************************************)
(* send_email up to the call of the delivery API                           *)
(***************************************************************************)
TemplateFields == {"{date}", "{name}"}

\* subject_template.format(date=date_short)
FormatSubject(template, date_short) ==
    [i \in 1..Len(template) |->
        IF template[i] = "{date}" THEN date_short ELSE <<template[i]>>]

\* the first exception send_email raises before it calls the API, if any
SendPreparation(c, env) ==
    IF "RESEND_API_KEY" \notin env THEN Exception("KeyError", "RESEND_API_KEY")
    ELSE IF "subject_template" \notin DOMAIN c
         THEN Exception("KeyError", "subject_template")
    ELSE IF \E i \in 1..Len(c["subject_template"]) :
                c["subject_template"][i] \in TemplateFields \ {"{date}"}
         THEN Exception("KeyError", "name")
    ELSE IF "recipient_email" \notin DOMAIN c
         THEN Exception("KeyError", "recipient_email")
    ELSE IF "sender_email" \notin DOMAIN c
         THEN Exception("KeyError", "sender_email")
    ELSE NoException

Payload(c, clk, doc) ==
    [from |-> c["sender_email"],
     to |-> <<c["recipient_email"]>>,
     subject |-> FormatSubject(c["subject_template"],
                    Strftime("%b %d, %Y", get_local_now(TzName(c), clk))),
     html |-> doc]


(***************************************************************************)
(* main(): one action per stage.                                           *)
(***************************************************************************)
Init ==
    /\ argv \in Argvs
    /\ store \in Stores
    /\ environ \in Environs
    /\ clock = StartHour
    /\ pc = "main"
    /\ exit_status = -1
    /\ diag = ""
    /\ config = NoConfig
    /\ messages = <<>>
    /\ all_content = <<>>
    /\ total_searches = 0
    /\ text = <<>>
    /\ html = NoDoc
    /\ genCalls = 0
    /\ outbox = <<>>
    /\ received = <<>>
    /\ genReturned = FALSE
    /\ sendReturned = FALSE
    /\ raised = NoException
    /\ stages = <<>>
    /\ log = <<>>

\* lines 225-233
CheckArgs ==
    /\ pc = "main"
    /\ IF Len(argv) < 2
       THEN /\ Report("usage")
            /\ raised' = Exception("SystemExit", "usage")
       ELSE /\ pc' = "load"
            /\ UNCHANGED <<diag, exit_status, raised>>
    /\ UNCHANGED <<argv, store, environ, clock, config, messages, all_content,
                   total_searches, text, html, genCalls, outbox, received,
                   genReturned, sendReturned, stages, log>>

\* lines 236-237 with load_config (lines 40-49)
LoadConfig ==
    /\ pc = "load"
    /\ stages' = Append(stages, "load")
    /\ LET out == LoadOutcome(argv[2])
       IN  IF ~out.found
           THEN /\ Report("not_found")
                /\ raised' = Exception("SystemExit", "not_found")
                /\ UNCHANGED config
           ELSE /\ config' = out.cfg
                /\ IF "name" \in DOMAIN out.cfg
                   THEN /\ pc' = "generate"
                        /\ UNCHANGED <<diag, exit_status, raised>>
                   ELSE /\ Report("traceback")
                        /\ raised' = Exception("KeyError", "name")
    /\ UNCHANGED <<argv, store, environ, clock, messages, all_content,
                   total_searches, text, html, genCalls, outbox, received,
                   genReturned, sendReturned, log>>

\* generate_newsletter up to the loop (lines 68-89), under the handlers of main
GenerateStart ==
    /\ pc = "generate"
    /\ stages' = Append(stages, "generate")
    /\ IF {"model", "prompt"} \subseteq DOMAIN config
       THEN /\ messages' = <<[role |-> "user",
                              content |-> ComposedPrompt(config, clock)]>>
            /\ all_content' = <<>>
            /\ total_searches' = 0
            /\ pc' = "gen_loop"
            /\ UNCHANGED <<diag, exit_status, raised>>
       ELSE /\ raised' = Exception("KeyError",
                            IF "model" \in DOMAIN config THEN "prompt" ELSE "model")
            /\ Report(GenHandler(raised'))
            /\ UNCHANGED <<messages, all_content, total_searches>>
    /\ UNCHANGED <<argv, store, environ, clock, config, text, html, genCalls,
                   outbox, received, genReturned, sendReturned, log>>

\* one iteration of the loop (lines 91-117): the call and what follows it
GenerateCall ==
    /\ pc = "gen_loop"
    /\ genCalls < MaxCalls
    /\ genCalls' = genCalls + 1
    /\ \/ \E content \in Contents, stop \in StopReasons,
             shape \in UsageShapes, n \in SearchCounts :
            LET response == [content |-> content, stop_reason |-> stop,
                             usage |-> MakeUsage(shape, n)]
            IN  /\ received' = Append(received,
                        [content |-> content, stop_reason |-> stop,
                         searches |-> ReportedSearches(shape, n)])
                /\ all_content' = Extend(all_content, response.content)
                /\ total_searches' = total_searches + SearchCount(response.usage)
                /\ IF IsPause(response.stop_reason)
                   THEN /\ messages' = ContinueTranscript(messages, response.content)
                        /\ pc' = "gen_loop"
                   ELSE /\ pc' = "gen_return"
                        /\ UNCHANGED messages
                /\ UNCHANGED <<diag, exit_status, raised>>
       \/ \E e \in ApiErrors :
            /\ raised' = Exception(e, "messages.create")
            /\ Report(GenHandler(raised'))
            /\ UNCHANGED <<received, all_content, total_searches, messages>>
    /\ UNCHANGED <<argv, store, environ, clock, config, text, html, outbox,
                   genReturned, sendReturned, stages, log>>

\* lines 119-124 and the assignment of line 241
GenerateReturn ==
    /\ pc = "gen_return"
    /\ text' = NewsletterText(all_content)
    /\ genReturned' = TRUE
    /\ pc' = "format"
    /\ UNCHANGED <<argv, store, environ, clock, exit_status, diag, config,
                   messages, all_content, total_searches, html, genCalls,
                   outbox, received, sendReturned, raised, stages, log>>

\* lines 251-252
FormatHtml ==
    /\ pc = "format"
    /\ stages' = Append(stages, "format")
    /\ html' = format_as_html(text, config, clock)
    /\ pc' = "send"
    /\ UNCHANGED <<argv, store, environ, clock, exit_status, diag, config,
                   messages, all_content, total_searches, text, genCalls,
                   outbox, received, genReturned, sendReturned, raised, log>>

\* lines 255-265 with send_email (lines 200-221)
SendEmail ==
    /\ pc = "send"
    /\ stages' = Append(stages, "send")
    /\ LET prep == SendPreparation(config, environ)
       IN  IF prep # NoException
           THEN /\ raised' = prep
                /\ Report(SendHandler(prep))
                /\ UNCHANGED <<outbox, sendReturned>>
           ELSE /\ outbox' = Append(outbox, Payload(config, clock, html))
                /\ \E outcome \in DeliveryOutcomes :
                     IF outcome = "ok"
                     THEN /\ sendReturned' = TRUE
                          /\ Report("done")
                          /\ UNCHANGED raised
                     ELSE /\ raised' = Exception("ResendError", "Emails.send")
                          /\ Report(SendHandler(raised'))
                          /\ UNCHANGED sendReturned
    /\ UNCHANGED <<argv, store, environ, clock, config, messages, all_content,
                   total_searches, text, html, genCalls, received, genReturned,
                   log>>

Next ==
    \/ CheckArgs
    \/ LoadConfig
    \/ GenerateStart
    \/ GenerateCall
    \/ GenerateReturn
    \/ FormatHtml
    \/ SendEmail

Spec == Init /\ [][Next]_vars


(***************************************************************************)
(* format_as_html on its own: a caller holds (text, config) and calls the  *)
(* function, while the system clock advances.                              *)
(***************************************************************************)
DocTexts ==
    {TextA, TextB,
     <<"*", "*", "a", "*", "*", " ", "*", "b", "*", "\n", "\n", "1", ".", " ", "c">>}

DocConfigs ==
    {FullConfig,
     [FullConfig EXCEPT !["schedule"] = [timezone |-> "US/Eastern"]],
     [FullConfig EXCEPT !["schedule"] = [timezone |-> "Asia/Tokyo"]],
     [FullConfig EXCEPT !["schedule"] = [timezone |-> "Mars/Olympus"]],
     Without(FullConfig, "schedule")}

RECURSIVE StrsOfLen(_, _)
StrsOfLen(A, n) ==
    IF n = 0 THEN {<<>>}
    ELSE {Append(s, c) : s \in StrsOfLen(A, n - 1), c \in A}

LineChars == {"*", " ", "a", "#", "-", "1", ".", "\n"}

LineTexts == UNION {StrsOfLen(LineChars, n) : n \in 0..MaxLineLen}

InitCaller(Texts, Cfgs) ==
    /\ text \in Texts
    /\ config \in Cfgs
    /\ environ \in Environs
    /\ clock = StartHour
    /\ pc = "caller"
    /\ argv = <<>>
    /\ store = NoConfig
    /\ exit_status = -1
    /\ diag = ""
    /\ messages = <<>>
    /\ all_content = <<>>
    /\ total_searches = 0
    /\ html = NoDoc
    /\ genCalls = 0
    /\ outbox = <<>>
    /\ received = <<>>
    /\ genReturned = FALSE
    /\ sendReturned = FALSE
    /\ raised = NoException
    /\ stages = <<>>
    /\ log = <<>>

InitDoc == InitCaller(DocTexts, DocConfigs)

InitLine == InitCaller(LineTexts, {FullConfig})

\* a call format_as_html(text, config), recorded with the time it was made
CallFormat ==
    /\ pc = "caller"
    /\ Len(log) < MaxFormatCalls
    /\ html' = format_as_html(text, config, clock)
    /\ log' = Append(log, [clock |-> clock,
                           now |-> get_local_now(TzName(config), clock),
                           html |-> html'])
    /\ UNCHANGED <<argv, store, environ, clock, pc, exit_status, diag, config,
                   messages, all_content, total_searches, text, genCalls,
                   outbox, received, genReturned, sendReturned, raised, stages>>

\* an hour passes
Tick ==
    /\ pc = "caller"
    /\ clock < StartHour + MaxTicks
    /\ clock' = clock + 1
    /\ UNCHANGED <<argv, store, environ, pc, exit_status, diag, config,
                   messages, all_content, total_searches, text, html, genCalls,
                   outbox, received, genReturned, sendReturned, raised, stages,
                   log>>

NextDoc == CallFormat \/ Tick

SpecDoc == InitDoc /\ [][NextDoc]_vars

SpecLine == InitLine /\ [][CallFormat]_vars


(***************************************************************************)
(* Properties                                                              *)
(***************************************************************************)
ConfigMissing == Len(argv) >= 2 /\ argv[2] \notin DOMAIN store

\* C1: when the config record of the requested newsletter is absent from the
\* store, the run never calls the generation API or the delivery API, never
\* goes past loading, can always take its next step until it has ended, and
\* when it has ended its exit status is 1 with the not-found diagnostic.
C1_MissingConfigNoApi ==
    ConfigMissing =>
        /\ genCalls = 0
        /\ outbox = <<>>
        /\ pc \in {"main", "load", "exit"}
        /\ exit_status # 0
        /\ pc = "exit" => exit_status = 1 /\ diag = "not_found"
        /\ pc = "main" => ENABLED CheckArgs
        /\ pc = "load" => ENABLED LoadConfig

C1_Witness == ConfigMissing /\ pc = "exit" /\ exit_status = 1

\* the texts of the text-bearing blocks of one response, in block order
RECURSIVE BlockTexts(_, _)
BlockTexts(content, i) ==
    IF i > Len(content) THEN <<>>
    ELSE (IF content[i].type = "text" THEN <<content[i].text>> ELSE <<>>)
            \o BlockTexts(content, i + 1)

\* ... of a sequence of responses, in response order
RECURSIVE ResponseTexts(_)
ResponseTexts(rs) ==
    IF rs = <<>> THEN <<>>
    ELSE ResponseTexts(SubSeq(rs, 1, Len(rs) - 1))
            \o BlockTexts(rs[Len(rs)].content, 1)

\* C2: once generate_newsletter has returned, its result is the newline-joined
\* texts of the text-bearing blocks of all responses received, in response
\* order and block order, without the search blocks.
C2_ReturnsAllText ==
    genReturned => text = JoinLines(ResponseTexts(received))

C2_Witness ==
    /\ genReturned
    /\ Len(received) = 2
    /\ received[1].content = <<TextBlock(TextB), SearchBlock, TextBlock(TextA)>>
    /\ received[2].content = <<SearchBlock, ResultBlock, TextBlock(TextB)>>
    /\ text = TextB \o <<"\n">> \o TextA \o <<"\n">> \o TextB

Paused(i) == received[i].stop_reason = "pause_turn"

ApiRaised == raised.type \in ApiErrors

\* C3: the loop calls again exactly after a pause_turn response and leaves at
\* the first other stop reason: while in the loop every response so far was a
\* pause and each was answered by one call; after the loop was left by a
\* response, that response is the only non-pause one, it is the last, and
\* the number of calls is the number of responses (k + 1), also in every later
\* state; as long as all responses are pauses the loop is not left.
C3_LoopContinuesOnPauseOnly ==
    LET n == Len(received)
    IN  /\ pc = "gen_loop" =>
              genCalls = n /\ \A i \in 1..n : Paused(i)
        /\ (pc \in {"gen_return", "format", "send"} \/ genReturned) =>
              /\ n >= 1
              /\ genCalls = n
              /\ \A i \in 1..(n - 1) : Paused(i)
              /\ ~Paused(n)
        /\ (~ApiRaised /\ n >= 1 /\ \A i \in 1..n : Paused(i)) => pc = "gen_loop"
        /\ ApiRaised => genCalls = n + 1 /\ \A i \in 1..n : Paused(i)

C3_Witness ==
    /\ pc = "exit"
    /\ genReturned
    /\ genCalls = 3
    /\ Paused(1) /\ Paused(2)
    /\ received[3].stop_reason = "max_tokens"

\* C4: a run in which something was raised (no argument, unknown newsletter,
\* authentication failure, missing delivery credential, any other exception
\* of generation or sending) has ended with a nonzero exit status; exit status
\* zero and the completion message only after the delivery call returned.
C4_FailuresExitNonzero ==
    /\ raised # NoException => pc = "exit" /\ exit_status # 0 /\ diag # "done"
    /\ pc = "exit" => exit_status \in {0, 1}
    /\ (exit_status = 0 \/ diag = "done") =>
          /\ pc = "exit"
          /\ exit_status = 0
          /\ diag = "done"
          /\ raised = NoException
          /\ sendReturned
          /\ Len(outbox) = 1

C4_Witness ==
    /\ pc = "exit"
    /\ raised.type = "ResendError"
    /\ exit_status = 1
    /\ diag = "send_error"

\* C5: a failure of the send stage is reported as the missing delivery
\* credential if and only if RESEND_API_KEY is absent from the environment.
C5_MissingKeyReportIffKeyAbsent ==
    (pc = "exit" /\ diag \in {"no_resend_key", "send_error"}) =>
        (diag = "no_resend_key" <=> "RESEND_API_KEY" \notin environ)

IsPrefix(s, t) == Len(s) <= Len(t) /\ s = SubSeq(t, 1, Len(s))

\* C6: the stages run in the order load, generate, format, send, none twice;
\* the delivery API is called at most once and only after generation returned;
\* a generation failure leaves the delivery API uncalled; a failed call of
\* either API is the last call of the run.
C6_LinearPipelineNoRetry ==
    /\ IsPrefix(stages, <<"load", "generate", "format", "send">>)
    /\ Len(outbox) <= 1
    /\ outbox # <<>> =>
          genReturned /\ stages = <<"load", "generate", "format", "send">>
    /\ diag \in {"auth", "gen_error"} => outbox = <<>> /\ ~genReturned
    /\ ApiRaised => genCalls = Len(received) + 1 /\ pc = "exit"
    /\ raised.type = "ResendError" =>
          Len(outbox) = 1 /\ genCalls = Len(received) /\ pc = "exit"
    /\ genReturned => genCalls = Len(received)

C6_Witness ==
    /\ pc = "exit"
    /\ raised.type = "ResendError"
    /\ Len(outbox) = 1
    /\ genCalls = 2

SameDay(a, b) == a \div 24 = b \div 24

\* C7 as stated: any two calls of format_as_html with the same (text, config)
\* return the same document, whatever the clock reads at each call.
C7_SameArgumentsSameDocument ==
    \A i, j \in 1..Len(log) : log[i].html = log[j].html

\* C7 amended: any two calls with the same (text, config) made on the same
\* calendar date of the config's timezone return the same document.
C7_SameArgumentsSameDaySameDocument ==
    \A i, j \in 1..Len(log) :
        SameDay(log[i].now, log[j].now) => log[i].html = log[j].html

C7_Witness ==
    /\ Len(log) = 2
    /\ log[1].clock # log[2].clock
    /\ SameDay(log[1].now, log[2].now)
    /\ TzName(config) = "Asia/Tokyo"
    /\ log[2].html.body # <<>>

NumPaused == Cardinality({i \in 1..Len(received) : Paused(i)})

\* C8: the transcript starts with the composed prompt as its only message and
\* grows only by the loop: with p paused responses received it has 2p + 1
\* messages (2n - 1 at the n-th call), roles alternating from user to user,
\* the i-th assistant message carrying the blocks of the i-th response and
\* followed by the user message "Please continue."; a response that is not a
\* pause adds nothing.
C8_TranscriptShape ==
    IF messages = <<>> THEN received = <<>>
    ELSE /\ Len(messages) = 2 * NumPaused + 1
         /\ pc = "gen_loop" => Len(messages) = 2 * (genCalls + 1) - 1
         /\ \A j \in 1..Len(messages) :
               messages[j].role = IF j % 2 = 1 THEN "user" ELSE "assistant"
         /\ messages[1].content = ComposedPrompt(config, clock)
         /\ \A i \in 1..NumPaused :
               /\ Paused(i)
               /\ messages[2 * i].content = received[i].content
               /\ messages[2 * i + 1].content = <<"Please continue.">>

C8_Witness ==
    /\ pc = "gen_loop"
    /\ genCalls = 2
    /\ Len(messages) = 5
    /\ messages[2].content # messages[4].content

RECURSIVE SumSearches(_)
SumSearches(rs) ==
    IF rs = <<>> THEN 0 ELSE Head(rs).searches + SumSearches(Tail(rs))

\* C9: the running search total is the sum of the web-search counters the
\* responses received so far reported (zero for a response without one),
\* for every shape of usage record, and no step decreases it.
C9_SearchTotalIsSum ==
    /\ [](total_searches = SumSearches(received))
    /\ [][total_searches' >= total_searches]_vars

C9_Witness ==
    /\ Len(received) = 3
    /\ received[1].searches = 2
    /\ received[2].searches = 0
    /\ received[3].searches = 2
    /\ total_searches = 4

\* the block element the dispatch order picks for a stripped line by its prefix
ClaimedTag(s) ==
    IF StartsWith(s, <<"#", "#", "#", " ">>) THEN "h3"
    ELSE IF StartsWith(s, <<"#", "#", " ">>) THEN "h2"
    ELSE IF StartsWith(s, <<"#", " ">>) THEN "h1"
    ELSE IF StartsWith(s, <<"-", " ">>) \/ StartsWith(s, <<"*", " ">>) THEN "li"
    ELSE IF OrdinalPrefix(s) > 0 THEN "li"
    ELSE "p"

\* C10: every non-blank line of the text becomes one block element chosen by
\* the prefix of the stripped line, in the order h3, h2, h1, list item,
\* numbered list item, paragraph; a line beginning with "- " or "* " becomes a
\* list item whatever inline markdown follows.
C10_BlockChosenByLinePrefix ==
    \A k \in 1..Len(log) :
        LET lines == SplitLines(text)
            out == SplitLines(log[k].html.body)
        IN  /\ Len(out) = Len(lines)
            /\ \A i \in 1..Len(lines) :
                  LET s == Strip(lines[i])
                  IN  s # <<>> =>
                        /\ out[i][1] = OpenTag(ClaimedTag(s))
                        /\ out[i][Len(out[i])] = CloseTag(ClaimedTag(s))

====
